---- MODULE Spec2Model ----
(***************************************************************************)
(* Execution orchestrator of the serverless function platform:             *)
(* src/api/run_function_docker.py (warm pool, run_function, image          *)
(* provisioning, metrics insert) as driven by src/api/main.py.             *)
(*                                                                         *)
(* run_function is modelled at the granularity of its blocking calls into  *)
(* the container runtime (docker cp / exec / stats / run / kill) and of    *)
(* the single list operations on the process-wide warm_containers dict     *)
(* (the truth test on line 142 and list.pop on line 143 are two separate   *)
(* steps: each is atomic under the interpreter lock, the pair is not).     *)
(*                                                                         *)
(* Text (stdout, stderr, output) is a sequence of tokens; the tokens " "   *)
(* and "\n" are whitespace, so str.strip() is a real operation.            *)
(*                                                                         *)
(* Specifications: Spec (run_function called one call at a time),          *)
(* SpecThreads (run_function called from threads), SpecHandlers (the run   *)
(* and compare handlers of main.py), SpecQueries (the metrics table and    *)
(* the two query handlers of main.py), SpecRegistry (the create / get /    *)
(* update / delete handlers of main.py and the run handler).               *)
(***************************************************************************)
EXTENDS Integers, Sequences, FiniteSets, TLC

\* ---------------------------------------------------------------- bounds
NumWorkers == 2
MaxInvocations == 1
MaxStartFailures == 2
MaxRows == 2
MaxFunctions == 2

\* ------------------------------------------------------ program constants
PrewarmCount == 2

SupportedLanguages == <<"python", "node">>
Supported == {"python", "node"}
Languages == {"python", "node", "ruby"}
Runtimes == {"runc", "runsc"}
Timeouts == {5}

\* the functions a client has registered (main.py create_function): the
\* name and the language of a call come from one of them
Registry == { [name |-> "f", language |-> "python"],
              [name |-> "g", language |-> "node"],
              [name |-> "h", language |-> "ruby"] }

Workers == 1..NumWorkers
EventLoop == 1
None == 0

VARIABLES
    phase,            \* "boot" | "serving" | "failed"  (startup_event)
    dockerfile,       \* dockerfile[l]: Dockerfile.<l> exists in the cwd
    imageExists,      \* imageExists[l]: docker image code-runner-<l> exists
    warm_containers,  \* warm_containers[l][r]: list of container ids
    containers,       \* containers[id]: the runtime's view of container id
    files,            \* temp source files present under /tmp (by invocation)
    metrics,          \* rows of the metrics table, in rowid order
    invocations,      \* number of run_function calls made so far
    pc,               \* per worker: position inside run_function
    args,             \* per worker: arguments of the running call
    container_id,     \* per worker: local container_id (None = 0)
    result,           \* per worker: local result (CompletedProcess) or NoResult
    out,              \* per worker: output/error_flag/stdout/stderr/memory/cpu
    exc,              \* per worker: exception that left run_function, or "none"
    env,              \* per worker: id of the container this call ran code in
    effects,          \* per worker: side effects the call has performed so far
    request,          \* the frame of the main.py handler the event loop is in
    functions         \* main.py: the list `functions` (the registry)

vars == <<phase, dockerfile, imageExists, warm_containers, containers, files,
          metrics, invocations, pc, args, container_id, result, out, exc, env,
          effects, request, functions>>

\* ------------------------------------------------------------------ text
IsSpace(t) == t \in {" ", "\n"}

RECURSIVE LStrip(_)
LStrip(s) == IF s # <<>> /\ IsSpace(Head(s)) THEN LStrip(Tail(s)) ELSE s

RECURSIVE RStrip(_)
RStrip(s) ==
    IF s # <<>> /\ IsSpace(s[Len(s)]) THEN RStrip(SubSeq(s, 1, Len(s) - 1)) ELSE s

Strip(s) == RStrip(LStrip(s))

TimedOutPrefix == "Execution timed out after "
TimeoutMessage(timeout) == <<TimedOutPrefix, ToString(timeout), " seconds.">>
ExecutionFailedMessage(err) == <<"Execution failed: ">> \o err
UnexpectedErrorMessage(msg) == <<"Unexpected error: ">> \o msg
PopFromEmptyList == <<"pop from empty list">>

\* what a program under test / the docker client may write
RawStdouts == {<<>>, <<"hi", "\n">>}
RawStderrs == {<<>>, <<"Traceback", "\n">>}
NotRunningStderr == <<"Error response from daemon: container is not running", "\n">>
CpStderr == <<"Error: No such container:path", "\n">>
StartStderr == <<"docker: Error response from daemon", "\n">>

\* ------------------------------------------------------ image provisioning
\* ensure_docker_images: for python then node: the Dockerfile must exist
\* (else FileNotFoundError); docker image inspect; on a miss docker build,
\* whose failure (CalledProcessError) propagates.  buildOk[l] is the outcome
\* a build of l would have.  The images built before a raise stay built.
\* a provisioning whose build leaves no tagged image behind
RECURSIVE EnsureFromUntagged(_, _, _, _, _, _)
EnsureFromUntagged(i, df, img, buildOk, inspected, built) ==
    IF i > Len(SupportedLanguages)
    THEN [raised |-> "none", images |-> img, inspected |-> inspected, built |-> built]
    ELSE LET l == SupportedLanguages[i] IN
         IF ~df[l]
         THEN [raised |-> "FileNotFoundError", images |-> img,
               inspected |-> inspected, built |-> built]
         ELSE IF img[l]
         THEN EnsureFromUntagged(i + 1, df, img, buildOk, inspected \cup {l}, built)
         ELSE IF buildOk[l]
         THEN EnsureFromUntagged(i + 1, df, img, buildOk, inspected \cup {l},
                                 built \cup {l})
         ELSE [raised |-> "CalledProcessError", images |-> img,
               inspected |-> inspected \cup {l}, built |-> built]

RECURSIVE EnsureFrom(_, _, _, _, _, _)
EnsureFrom(i, df, img, buildOk, inspected, built) ==
    IF i > Len(SupportedLanguages)
    THEN [raised |-> "none", images |-> img, inspected |-> inspected, built |-> built]
    ELSE LET l == SupportedLanguages[i] IN
         IF ~df[l]
         THEN [raised |-> "FileNotFoundError", images |-> img,
               inspected |-> inspected, built |-> built]
         ELSE IF img[l]
         THEN EnsureFrom(i + 1, df, img, buildOk, inspected \cup {l}, built)
         ELSE IF buildOk[l]
         THEN EnsureFrom(i + 1, df, [img EXCEPT ![l] = TRUE], buildOk,
                         inspected \cup {l}, built \cup {l})
         ELSE [raised |-> "CalledProcessError", images |-> img,
               inspected |-> inspected \cup {l}, built |-> built]

ensure_docker_images(df, img, buildOk) == EnsureFrom(1, df, img, buildOk, {}, {})

\* ---------------------------------------------------------------- warm pool
EmptyPool == [l \in Supported |-> [r \in Runtimes |-> <<>>]]

Container(kind, l, r) == [kind |-> kind, language |-> l, runtime |-> r, state |-> "running"]

\* the for-loop of prewarm_containers: one docker run -d ... sleep 300 per
\* iteration; a non-zero return code is logged and skipped, a started
\* container's id is appended to warm_containers[language][runtime].
\* s = [wc |-> warm_containers, cs |-> containers]; ok[i] is the outcome of
\* the i-th docker run.
\* a loop that gives up at the first container that fails to start
RECURSIVE PrewarmLoopBreaks(_, _, _, _, _)
PrewarmLoopBreaks(s, language, runtime, ok, i) ==
    IF i > Len(ok) THEN s
    ELSE IF ~ok[i] THEN s
    ELSE LET id == Len(s.cs) + 1
             s2 == [wc |-> [s.wc EXCEPT ![language][runtime] = Append(@, id)],
                    cs |-> Append(s.cs, Container("warm", language, runtime))]
         IN PrewarmLoopBreaks(s2, language, runtime, ok, i + 1)

RECURSIVE PrewarmLoop(_, _, _, _, _)
PrewarmLoop(s, language, runtime, ok, i) ==
    IF i > Len(ok) THEN s
    ELSE IF ~ok[i] THEN PrewarmLoop(s, language, runtime, ok, i + 1)
    ELSE LET id == Len(s.cs) + 1
             s2 == [wc |-> [s.wc EXCEPT ![language][runtime] = Append(@, id)],
                    cs |-> Append(s.cs, Container("warm", language, runtime))]
         IN PrewarmLoop(s2, language, runtime, ok, i + 1)

\* prewarm_containers(language, runtime, count): ensure_docker_images first;
\* any exception is printed and swallowed.
prewarm_containers(s, df, img, language, runtime, ok) ==
    IF ensure_docker_images(df, img, [l \in Supported |-> TRUE]).raised # "none"
    THEN s
    ELSE PrewarmLoop(s, language, runtime, ok, 1)

\* the four start-up calls of main.py, in order
StartupKeys == << <<"python", "runc">>, <<"python", "runsc">>,
                 <<"node", "runc">>, <<"node", "runsc">> >>

RECURSIVE PrewarmAll(_, _, _, _, _)
PrewarmAll(s, df, img, oks, k) ==
    IF k > Len(StartupKeys) THEN s
    ELSE PrewarmAll(prewarm_containers(s, df, img, StartupKeys[k][1],
                                       StartupKeys[k][2], oks[k]),
                    df, img, oks, k + 1)

StartOutcomes == [1..PrewarmCount -> BOOLEAN]

Failures(oks) ==
    Cardinality({<<k, i>> \in (1..Len(StartupKeys)) \X (1..PrewarmCount) : ~oks[k][i]})

\* ------------------------------------------------------------ docker stats
\* parse_docker_stats: "12MiB / 256MiB,5%" -> (12, 5); anything that does
\* not parse -> (0, 0).  The output is a token sequence; NumberOf maps the
\* numeric tokens to their values.
NumberOf == [t \in {"0", "5", "12", "512"} |->
               CASE t = "0" -> 0 [] t = "5" -> 5 [] t = "12" -> 12 [] t = "512" -> 512]

IsNumber(s) == Len(s) = 1 /\ s[1] \in DOMAIN NumberOf

Positions(s, t) == {i \in 1..Len(s) : s[i] = t}

Min(S) == CHOOSE x \in S : \A y \in S : x <= y

\* s.split(t)[0]
BeforeFirst(s, t) ==
    IF Positions(s, t) = {} THEN s ELSE SubSeq(s, 1, Min(Positions(s, t)) - 1)

\* s.replace(t, "")
Without(s, t) == SelectSeq(s, LAMBDA x : x # t)

parse_docker_stats(stats_output) ==
    LET s == Strip(stats_output)
        commas == Positions(s, ",")
    IN IF Cardinality(commas) # 1 THEN <<0, 0>>
       ELSE LET c == Min(commas)
                mem_str == SubSeq(s, 1, c - 1)
                cpu_str == SubSeq(s, c + 1, Len(s))
                mem_used == Strip(BeforeFirst(mem_str, "MiB"))
                cpu_used == Strip(Without(cpu_str, "%"))
            IN IF IsNumber(mem_used) /\ IsNumber(cpu_used)
               THEN <<NumberOf[mem_used[1]], NumberOf[cpu_used[1]]>>
               ELSE <<0, 0>>

\* what docker stats --no-stream --format "{{.MemUsage}},{{.CPUPerc}}" prints
StatsOutputs == { <<"12", "MiB", " ", "/", " ", "256", "MiB", ",", "5", "%", "\n">>,
                  <<"512", "KiB", " ", "/", " ", "256", "MiB", ",", "0", "%", "\n">> }

\* ------------------------------------------------------------ worker locals
NoArgs == [language |-> "", runtime |-> "", function_name |-> "", timeout |-> 0, inv |-> 0]
NoResult == [set |-> FALSE, returncode |-> 0, stdout |-> <<>>, stderr |-> <<>>]
Completed(rc, so, se) == [set |-> TRUE, returncode |-> rc, stdout |-> so, stderr |-> se]

\* lines 137-138: output, error_flag, stdout, stderr = "", False, "", "";
\* memory_usage, cpu_usage = 0.0, 0.0
InitOut == [output |-> <<>>, error_flag |-> FALSE, stdout |-> <<>>, stderr |-> <<>>,
            memory_usage |-> 0, cpu_usage |-> 0]

\* a capture that flags every run that wrote to stderr
CapturedStderrFlag(o, res) ==
    LET stdout == Strip(res.stdout)
        stderr == Strip(res.stderr)
    IN [o EXCEPT !.stdout = stdout,
                 !.stderr = stderr,
                 !.output = IF stdout # <<>> THEN stdout ELSE stderr,
                 !.error_flag = (stderr # <<>>)]

\* lines 181-184, after the container command returned
Captured(o, res) ==
    LET stdout == Strip(res.stdout)
        stderr == Strip(res.stderr)
    IN [o EXCEPT !.stdout = stdout,
                 !.stderr = stderr,
                 !.output = IF stdout # <<>> THEN stdout ELSE stderr,
                 !.error_flag = (stderr # <<>> /\ stdout = <<>>)]

\* lines 187-190: except subprocess.TimeoutExpired
TimedOut(o, timeout) ==
    [o EXCEPT !.output = TimeoutMessage(timeout), !.error_flag = TRUE,
              !.stderr = TimeoutMessage(timeout)]

\* lines 195-198: except subprocess.CalledProcessError (docker cp, check=True)
Failed(o, err) ==
    [o EXCEPT !.output = ExecutionFailedMessage(err), !.error_flag = TRUE, !.stderr = err]

\* lines 200-203: except Exception
Unexpected(o, msg) ==
    [o EXCEPT !.output = UnexpectedErrorMessage(msg), !.error_flag = TRUE, !.stderr = msg]

\* a pop that reads the last element and leaves it in the list
ListPopPeek(list) == [value |-> list[Len(list)], rest |-> list]

\* list.pop(): the last element, and the list without it
ListPop(list) == [value |-> list[Len(list)], rest |-> SubSeq(list, 1, Len(list) - 1)]

\* a finally block that leaves the temp file behind
RemoveNothing(fs, a) == fs

\* lines 206-207: os.remove(filename); one file per call (uuid4 name)
RemoveTempFile(fs, a) == fs \ {a.inv}

\* a row that records the default runtime instead of the call's
MetricsRowDefaultRuntime(a, o) ==
    [function_name |-> a.function_name, runtime |-> "runc",
     error |-> IF o.error_flag THEN 1 ELSE 0, stdout |-> o.stdout, stderr |-> o.stderr,
     memory_usage |-> o.memory_usage, cpu_usage |-> o.cpu_usage]

\* lines 221-224: the row of the INSERT (response_time, a wall-clock
\* difference, is not modelled)
MetricsRow(a, o) ==
    [function_name |-> a.function_name, runtime |-> a.runtime,
     error |-> IF o.error_flag THEN 1 ELSE 0, stdout |-> o.stdout, stderr |-> o.stderr,
     memory_usage |-> o.memory_usage, cpu_usage |-> o.cpu_usage]

\* an INSERT whose sqlite3.Error leaves run_function
StoreMetricsRaises(rows, row, dbOk) ==
    IF dbOk
    THEN [rows |-> Append(rows, row), stored |-> TRUE, raised |-> "none"]
    ELSE [rows |-> rows, stored |-> FALSE, raised |-> "sqlite3.Error"]

\* lines 219-228: INSERT and commit; a sqlite3.Error is printed and swallowed
StoreMetrics(rows, row, dbOk) ==
    IF dbOk
    THEN [rows |-> Append(rows, row), stored |-> TRUE, raised |-> "none"]
    ELSE [rows |-> rows, stored |-> FALSE, raised |-> "none"]

Pool(p) == warm_containers[args[p].language][args[p].runtime]

\* the event loop is in no handler
NoRequest == [kind |-> "none", func_id |-> 0, stage |-> 0, status |-> 0, body |-> {},
              calls |-> 0, rows |-> 0]

\* ------------------------------------------------------------------- Init
\* module import: empty pool, no function running; the Dockerfiles and the
\* images are whatever the host holds.
Init ==
    /\ phase = "boot"
    /\ dockerfile \in [Supported -> BOOLEAN]
    /\ imageExists \in [Supported -> BOOLEAN]
    /\ warm_containers = EmptyPool
    /\ containers = <<>>
    /\ files = {}
    /\ metrics = <<>>
    /\ invocations = 0
    /\ pc = [p \in Workers |-> "idle"]
    /\ args = [p \in Workers |-> NoArgs]
    /\ container_id = [p \in Workers |-> None]
    /\ result = [p \in Workers |-> NoResult]
    /\ out = [p \in Workers |-> InitOut]
    /\ exc = [p \in Workers |-> "none"]
    /\ env = [p \in Workers |-> None]
    /\ effects = [p \in Workers |-> {}]
    /\ request = NoRequest
    /\ functions = <<>>

\* ---------------------------------------------------------------- startup
\* main.py startup_event: docker info, initialize_database,
\* ensure_docker_images, four prewarm_containers calls.  Requests are served
\* only after it returned without raising.
Startup ==
    /\ phase = "boot"
    /\ \E dockerOk \in BOOLEAN, buildOk \in [Supported -> BOOLEAN],
          oks \in [1..Len(StartupKeys) -> StartOutcomes] :
          LET e == ensure_docker_images(dockerfile, imageExists, buildOk)
              s == PrewarmAll([wc |-> warm_containers, cs |-> containers],
                              dockerfile, e.images, oks, 1)
          IN /\ Failures(oks) <= MaxStartFailures
             /\ IF ~dockerOk
                THEN /\ phase' = "failed"
                     /\ UNCHANGED <<imageExists, warm_containers, containers>>
                ELSE IF e.raised # "none"
                THEN /\ phase' = "failed"
                     /\ imageExists' = e.images
                     /\ UNCHANGED <<warm_containers, containers>>
                ELSE /\ phase' = "serving"
                     /\ imageExists' = e.images
                     /\ warm_containers' = s.wc
                     /\ containers' = s.cs
    /\ UNCHANGED <<functions, request, dockerfile, files, metrics, invocations, pc, args, container_id,
                   result, out, exc, env, effects>>

\* ------------------------------------------------------------ run_function
\* lines 104-139: ensure_docker_images, language dispatch, write the temp
\* file, initialise the locals.  function carries the name and the language
\* the caller passes.
Invoke(p, function, runtime, timeout) ==
    /\ phase = "serving"
    /\ \E buildOk \in [Supported -> BOOLEAN] :
          LET e == ensure_docker_images(dockerfile, imageExists, buildOk)
              language == function.language
              name == function.name
              inv == invocations + 1
              did == (IF e.inspected # {} THEN {"inspect"} ELSE {})
                     \cup (IF e.built # {} \/ e.raised = "CalledProcessError"
                           THEN {"build"} ELSE {})
          IN /\ invocations' = inv
             /\ imageExists' = e.images
             /\ args' = [args EXCEPT ![p] =
                   [language |-> language, runtime |-> runtime,
                    function_name |-> name, timeout |-> timeout, inv |-> inv]]
             /\ IF e.raised # "none"
                THEN /\ pc' = [pc EXCEPT ![p] = "raised"]
                     /\ exc' = [exc EXCEPT ![p] = e.raised]
                     /\ effects' = [effects EXCEPT ![p] = did]
                     /\ UNCHANGED files
                ELSE IF language \notin Supported
                THEN /\ pc' = [pc EXCEPT ![p] = "raised"]
                     /\ exc' = [exc EXCEPT ![p] = "ValueError"]
                     /\ effects' = [effects EXCEPT ![p] = did]
                     /\ UNCHANGED files
                ELSE /\ pc' = [pc EXCEPT ![p] = "try"]
                     /\ files' = files \cup {inv}
                     /\ effects' = [effects EXCEPT ![p] = did \cup {"file"}]
                     /\ exc' = [exc EXCEPT ![p] = "none"]
    /\ container_id' = [container_id EXCEPT ![p] = None]
    /\ result' = [result EXCEPT ![p] = NoResult]
    /\ out' = [out EXCEPT ![p] = InitOut]
    /\ env' = [env EXCEPT ![p] = None]
    /\ UNCHANGED <<functions, phase, dockerfile, warm_containers, containers, metrics>>

\* a call of run_function by a caller that is in no handler frame
Call(p) ==
    /\ pc[p] = "idle"
    /\ \E function \in Registry, runtime \in Runtimes, timeout \in Timeouts :
          Invoke(p, function, runtime, timeout)
    /\ UNCHANGED request

\* line 142: if warm_containers[language][runtime]:
CheckPool(p) ==
    /\ pc[p] = "try"
    /\ pc' = [pc EXCEPT ![p] = IF Pool(p) # <<>> THEN "pop" ELSE "cold"]
    /\ UNCHANGED <<functions, request, phase, dockerfile, imageExists, warm_containers, containers, files,
                   metrics, invocations, args, container_id, result, out, exc, env,
                   effects>>

\* line 143: container_id = warm_containers[language][runtime].pop();
\* on an empty list IndexError, caught on line 200
Pop(p) ==
    /\ pc[p] = "pop"
    /\ IF Pool(p) = <<>>
       THEN /\ out' = [out EXCEPT ![p] = Unexpected(@, PopFromEmptyList)]
            /\ pc' = [pc EXCEPT ![p] = "finally"]
            /\ UNCHANGED <<warm_containers, container_id, env, effects>>
       ELSE LET popped == ListPop(Pool(p)) IN
            /\ container_id' = [container_id EXCEPT ![p] = popped.value]
            /\ env' = [env EXCEPT ![p] = popped.value]
            /\ warm_containers' =
                  [warm_containers EXCEPT ![args[p].language][args[p].runtime] = popped.rest]
            /\ effects' = [effects EXCEPT ![p] = @ \cup {"pool"}]
            /\ pc' = [pc EXCEPT ![p] = "cp"]
            /\ UNCHANGED out
    /\ UNCHANGED <<functions, request, phase, dockerfile, imageExists, containers, files, metrics,
                   invocations, args, result, exc>>

\* lines 145-151: docker cp (check=True); a failure is CalledProcessError
Cp(p) ==
    /\ pc[p] = "cp"
    /\ \E ok \in BOOLEAN :
          IF ok
          THEN /\ pc' = [pc EXCEPT ![p] = "exec"]
               /\ UNCHANGED out
          ELSE /\ out' = [out EXCEPT ![p] = Failed(@, CpStderr)]
               /\ pc' = [pc EXCEPT ![p] = "finally"]
    /\ UNCHANGED <<functions, request, phase, dockerfile, imageExists, warm_containers, containers, files,
                   metrics, invocations, args, container_id, result, exc, env, effects>>

\* lines 152-158: docker exec under the deadline; on TimeoutExpired
\* (lines 187-194) the pooled container is killed
Exec(p) ==
    /\ pc[p] = "exec"
    /\ IF containers[container_id[p]].state # "running"
       THEN /\ result' = [result EXCEPT ![p] = Completed(1, <<>>, NotRunningStderr)]
            /\ pc' = [pc EXCEPT ![p] = "stats"]
            /\ UNCHANGED <<out, containers>>
       ELSE \/ /\ out' = [out EXCEPT ![p] = TimedOut(@, args[p].timeout)]
               /\ containers' = [containers EXCEPT ![container_id[p]].state = "exited"]
               /\ pc' = [pc EXCEPT ![p] = "finally"]
               /\ UNCHANGED result
            \/ \E rc \in {0, 1}, so \in RawStdouts, se \in RawStderrs :
                  /\ result' = [result EXCEPT ![p] = Completed(rc, so, se)]
                  /\ pc' = [pc EXCEPT ![p] = "stats"]
                  /\ UNCHANGED <<out, containers>>
    /\ UNCHANGED <<functions, request, phase, dockerfile, imageExists, warm_containers, files, metrics,
                   invocations, args, container_id, exc, env, effects>>

\* lines 159-166 and 181-185: docker stats, parse, capture the output
Stats(p) ==
    /\ pc[p] = "stats"
    /\ \E stats \in [returncode : {1}, stdout : {<<>>}]
                    \cup [returncode : {0}, stdout : StatsOutputs] :
          LET usage == IF stats.returncode = 0
                       THEN parse_docker_stats(stats.stdout) ELSE <<0, 0>>
              o == [out[p] EXCEPT !.memory_usage = usage[1], !.cpu_usage = usage[2]]
          IN out' = [out EXCEPT ![p] = Captured(o, result[p])]
    /\ pc' = [pc EXCEPT ![p] = "finally"]
    /\ UNCHANGED <<functions, request, phase, dockerfile, imageExists, warm_containers, containers, files,
                   metrics, invocations, args, container_id, result, exc, env, effects>>

\* lines 167-185: docker run --rm under the deadline.  The deadline kills
\* the docker client only; container_id is None, so nothing kills the
\* container, which keeps running.
Cold(p) ==
    /\ pc[p] = "cold"
    /\ LET id == Len(containers) + 1
           c == Container("cold", args[p].language, args[p].runtime)
       IN \/ /\ result' = [result EXCEPT ![p] = Completed(125, <<>>, StartStderr)]
             /\ out' = [out EXCEPT ![p] = Captured(@, result'[p])]
             /\ UNCHANGED <<containers, env>>
          \/ /\ out' = [out EXCEPT ![p] = TimedOut(@, args[p].timeout)]
             /\ containers' = Append(containers, c)
             /\ env' = [env EXCEPT ![p] = id]
             /\ UNCHANGED result
          \/ \E rc \in {0, 1}, so \in RawStdouts, se \in RawStderrs :
                /\ result' = [result EXCEPT ![p] = Completed(rc, so, se)]
                /\ out' = [out EXCEPT ![p] = Captured(@, result'[p])]
                /\ containers' = Append(containers, [c EXCEPT !.state = "exited"])
                /\ env' = [env EXCEPT ![p] = id]
    /\ effects' = [effects EXCEPT ![p] = @ \cup {"container"}]
    /\ pc' = [pc EXCEPT ![p] = "finally"]
    /\ UNCHANGED <<functions, request, phase, dockerfile, imageExists, warm_containers, files, metrics,
                   invocations, args, container_id, exc>>

\* a finally block that puts the container of a pooled run back in its list
FinishReleases(p) ==
    /\ pc[p] = "finally"
    /\ files' = RemoveTempFile(files, args[p])
    /\ warm_containers' =
          IF container_id[p] # None
          THEN [warm_containers EXCEPT ![args[p].language][args[p].runtime] =
                   Append(@, container_id[p])]
          ELSE warm_containers
    /\ \E dbOk \in BOOLEAN :
          LET s == StoreMetrics(metrics, MetricsRow(args[p], out[p]), dbOk) IN
          /\ metrics' = s.rows
          /\ effects' = [effects EXCEPT ![p] =
                @ \cup {"insert"} \cup (IF s.stored THEN {"metrics"} ELSE {})]
          /\ pc' = [pc EXCEPT ![p] = IF s.raised = "none" THEN "returned" ELSE "raised"]
          /\ exc' = [exc EXCEPT ![p] = s.raised]
    /\ UNCHANGED <<functions, request, phase, dockerfile, imageExists, containers,
                   invocations, args, container_id, result, out, env>>

\* lines 205-230: finally (remove the temp file), the metrics INSERT (a
\* sqlite3.Error is printed and swallowed), return output, metrics
Finish(p) ==
    /\ pc[p] = "finally"
    /\ files' = RemoveTempFile(files, args[p])
    /\ \E dbOk \in BOOLEAN :
          LET s == StoreMetrics(metrics, MetricsRow(args[p], out[p]), dbOk) IN
          /\ metrics' = s.rows
          /\ effects' = [effects EXCEPT ![p] =
                @ \cup {"insert"} \cup (IF s.stored THEN {"metrics"} ELSE {})]
          /\ pc' = [pc EXCEPT ![p] = IF s.raised = "none" THEN "returned" ELSE "raised"]
          /\ exc' = [exc EXCEPT ![p] = s.raised]
    /\ UNCHANGED <<functions, request, phase, dockerfile, imageExists, warm_containers, containers,
                   invocations, args, container_id, result, out, env>>

\* the caller has taken the result (or the exception); the worker is free
Return(p) ==
    /\ pc[p] \in {"returned", "raised"}
    /\ pc' = [pc EXCEPT ![p] = "idle"]
    /\ args' = [args EXCEPT ![p] = NoArgs]
    /\ container_id' = [container_id EXCEPT ![p] = None]
    /\ result' = [result EXCEPT ![p] = NoResult]
    /\ out' = [out EXCEPT ![p] = InitOut]
    /\ exc' = [exc EXCEPT ![p] = "none"]
    /\ env' = [env EXCEPT ![p] = None]
    /\ effects' = [effects EXCEPT ![p] = {}]
    /\ UNCHANGED <<functions, phase, dockerfile, imageExists, warm_containers, containers,
                   files, metrics, invocations>>

Reset(p) == Return(p) /\ UNCHANGED request

\* ---------------------------------------------------------------- handlers
\* main.py lines 24-31: the Function bodies clients post (the field route
\* is read by no handler and is left out; id is None unless the client sends
\* one).  e is posted without code, b with empty code.
Functions ==
    << [id |-> None, name |-> "f", language |-> "python", timeout |-> 5,
        runtime |-> "runc", settings |-> [code |-> "def handler(event): return 'hi'"]],
       [id |-> None, name |-> "g", language |-> "node", timeout |-> 5,
        runtime |-> "runsc", settings |-> [code |-> "console.log('hi')"]],
       [id |-> None, name |-> "h", language |-> "ruby", timeout |-> 5,
        runtime |-> "runc", settings |-> [code |-> "puts 'hi'"]],
       [id |-> None, name |-> "e", language |-> "python", timeout |-> 5,
        runtime |-> "runc", settings |-> <<>>],
       [id |-> None, name |-> "b", language |-> "node", timeout |-> 5,
        runtime |-> "runsc", settings |-> [code |-> ""]] >>

\* what a handler that reads the registry and the metrics table leaves alone
orchestratorVars == <<functions, phase, dockerfile, imageExists, warm_containers,
                      containers, files, metrics, invocations, pc, args, container_id,
                      result, out, exc, env, effects>>

\* lines 73, 79, 89, 99, 125, 176: func_id > len(functions) or func_id <= 0
NotFound(func_id) == func_id > Len(functions) \/ func_id <= 0

\* a check that only looks for the key
NoCodeKeyMissing(function) == "code" \notin DOMAIN function.settings

\* lines 103-104, 180-181: not function.get("settings", {}).get("code")
NoCode(function) ==
    "code" \notin DOMAIN function.settings \/ function.settings["code"] = ""

\* the runtimes compare_performance passes on lines 184 and 185
CompareRuntimesRuncTwice == <<"runc", "runc">>

CompareRuntimes == <<"runc", "runsc">>

\* the frame of a handler that is calling run_function; calls and rows are
\* the number of run_function calls and of metrics rows when it started
\* (read by the properties only)
Running(kind, func_id) ==
    [NoRequest EXCEPT !.kind = kind, !.func_id = func_id, !.stage = 1,
                      !.calls = invocations, !.rows = Len(metrics)]

\* the frame of a handler that raised HTTPException(status) before any call
Rejected(kind, func_id, status) ==
    [Running(kind, func_id) EXCEPT !.stage = 0, !.status = status]

\* lines 97-116: POST /functions/{func_id}/run up to the call of run_function
run_function_endpoint ==
    /\ request.kind = "none"
    /\ pc[EventLoop] = "idle"
    /\ phase = "serving"
    /\ invocations < MaxInvocations
    /\ \E func_id \in 1..(Len(functions) + 1) :
          IF NotFound(func_id)
          THEN /\ request' = Rejected("run", func_id, 404)
               /\ UNCHANGED orchestratorVars
          ELSE IF NoCode(functions[func_id])
          THEN /\ request' = Rejected("run", func_id, 400)
               /\ UNCHANGED orchestratorVars
          ELSE LET function == functions[func_id] IN
               /\ Invoke(EventLoop, function, function.runtime, function.timeout)
               /\ request' = Running("run", func_id)

\* lines 174-184: GET /functions/{func_id}/compare up to the first call
compare_performance ==
    /\ request.kind = "none"
    /\ pc[EventLoop] = "idle"
    /\ phase = "serving"
    /\ invocations < MaxInvocations
    /\ \E func_id \in 1..(Len(functions) + 1) :
          IF NotFound(func_id)
          THEN /\ request' = Rejected("compare", func_id, 404)
               /\ UNCHANGED orchestratorVars
          ELSE IF NoCode(functions[func_id])
          THEN /\ request' = Rejected("compare", func_id, 400)
               /\ UNCHANGED orchestratorVars
          ELSE LET function == functions[func_id] IN
               /\ Invoke(EventLoop, function, CompareRuntimes[1], function.timeout)
               /\ request' = Running("compare", func_id)

\* line 185: the first call has returned; the second call
CompareSecondRun ==
    /\ request.kind = "compare"
    /\ request.stage = 1
    /\ pc[EventLoop] = "returned"
    /\ LET function == functions[request.func_id] IN
          Invoke(EventLoop, function, CompareRuntimes[2], function.timeout)
    /\ request' = [request EXCEPT !.stage = 2]

\* the handler is left: with the HTTPException it raised before any call,
\* with the result of its last call (lines 117, 187-202), or with the
\* exception of a call (line 119; unhandled in compare_performance)
Respond ==
    /\ request.kind # "none"
    /\ \/ /\ request.status # 0
          /\ UNCHANGED orchestratorVars
       \/ /\ request.status = 0
          /\ \/ pc[EventLoop] = "raised"
             \/ pc[EventLoop] = "returned" /\ request.kind = "run"
             \/ pc[EventLoop] = "returned" /\ request.stage = 2
          /\ Return(EventLoop)
    /\ request' = NoRequest

\* ---------------------------------------------------------------- registry
\* lines 60-62, 82-83: function.dict() with "id" set to func_id
Stored(function, func_id) == [function EXCEPT !.id = func_id]

\* list.pop(i) for a 1-based position i
ListPopAt(list, i) ==
    [value |-> list[i], rest |-> SubSeq(list, 1, i - 1) \o SubSeq(list, i + 1, Len(list))]

\* the frame of a handler of the registry that has its response
Answered(kind, func_id, status, body) ==
    [NoRequest EXCEPT !.kind = kind, !.func_id = func_id, !.status = status,
                      !.body = body]

\* lines 58-65: POST /functions/ ; the response carries the new id
create_function ==
    /\ request.kind = "none"
    /\ pc[EventLoop] = "idle"
    /\ phase = "serving"
    /\ \E k \in 1..Len(Functions) :
          LET function == Functions[k]
              func_id == Len(functions) + 1
          IN /\ functions' = Append(functions, Stored(function, func_id))
             /\ request' = Answered("create", func_id, 201, {func_id})
    /\ UNCHANGED <<phase, dockerfile, imageExists, warm_containers, containers, files,
                   metrics, invocations, pc, args, container_id, result, out, exc, env,
                   effects>>

\* lines 71-75: GET /functions/{func_id}
get_function ==
    /\ request.kind = "none"
    /\ pc[EventLoop] = "idle"
    /\ phase = "serving"
    /\ \E func_id \in 1..(Len(functions) + 1) :
          IF NotFound(func_id)
          THEN request' = Answered("get", func_id, 404, {})
          ELSE request' = Answered("get", func_id, 200, {functions[func_id]})
    /\ UNCHANGED orchestratorVars

\* lines 77-85: PUT /functions/{func_id}
update_function ==
    /\ request.kind = "none"
    /\ pc[EventLoop] = "idle"
    /\ phase = "serving"
    /\ \E func_id \in 1..(Len(functions) + 1), k \in 1..Len(Functions) :
          IF NotFound(func_id)
          THEN /\ request' = Answered("update", func_id, 404, {})
               /\ UNCHANGED functions
          ELSE LET updated_function == Stored(Functions[k], func_id) IN
               /\ functions' = [functions EXCEPT ![func_id] = updated_function]
               /\ request' = Answered("update", func_id, 200, {updated_function})
    /\ UNCHANGED <<phase, dockerfile, imageExists, warm_containers, containers, files,
                   metrics, invocations, pc, args, container_id, result, out, exc, env,
                   effects>>

\* lines 87-93: DELETE /functions/{func_id}
delete_function ==
    /\ request.kind = "none"
    /\ pc[EventLoop] = "idle"
    /\ phase = "serving"
    /\ \E func_id \in 1..(Len(functions) + 1) :
          IF NotFound(func_id)
          THEN /\ request' = Answered("delete", func_id, 404, {})
               /\ UNCHANGED functions
          ELSE /\ functions' = ListPopAt(functions, func_id).rest
               /\ request' = Answered("delete", func_id, 200, {})
    /\ UNCHANGED <<phase, dockerfile, imageExists, warm_containers, containers, files,
                   metrics, invocations, pc, args, container_id, result, out, exc, env,
                   effects>>

\* ----------------------------------------------------------------- queries
\* AVG of SQLite over a non-empty list of values: the sum over the count,
\* kept as a fraction in lowest terms
RECURSIVE SumSeq(_)
SumSeq(s) == IF s = <<>> THEN 0 ELSE Head(s) + SumSeq(Tail(s))

RECURSIVE Gcd(_, _)
Gcd(a, b) == IF b = 0 THEN a ELSE Gcd(b, a % b)

Avg(values) ==
    LET g == Gcd(SumSeq(values), Len(values))
    IN [num |-> SumSeq(values) \div g, den |-> Len(values) \div g]

Column(rows, c) == [i \in 1..Len(rows) |-> rows[i][c]]

\* a grouping by function_name alone
GroupByNameOnly(rows, name, runtime) ==
    SelectSeq(rows, LAMBDA row : row.function_name = name)

\* line 157: GROUP BY function_name, runtime
Group(rows, name, runtime) ==
    SelectSeq(rows, LAMBDA row : row.function_name = name /\ row.runtime = runtime)

\* lines 155-169: one result per (function_name, runtime) present
aggregate(rows) ==
    { LET group == Group(rows, key[1], key[2])
      IN [function_name |-> key[1],
          runtime |-> key[2],
          avg_response_time |-> Avg(Column(group, "response_time")),
          error_count |-> SumSeq(Column(group, "error")),
          avg_memory_usage_mb |-> Avg(Column(group, "memory_usage")),
          avg_cpu_usage_percent |-> Avg(Column(group, "cpu_usage"))] :
      key \in {<<rows[i].function_name, rows[i].runtime>> : i \in 1..Len(rows)} }

\* a query that orders by rowid ascending
OldestRow(rows) == rows[1]

\* line 132: ORDER BY rowid DESC LIMIT 1
NewestRow(rows) == rows[Len(rows)]

\* line 132: WHERE function_name = ?
RowsOf(rows, name) == SelectSeq(rows, LAMBDA row : row.function_name = name)

\* lines 139-148: the columns get_function_metrics returns
FunctionMetrics(row) ==
    [response_time |-> row.response_time, error |-> row.error, stdout |-> row.stdout,
     stderr |-> row.stderr, memory_usage |-> row.memory_usage,
     cpu_usage |-> row.cpu_usage]

\* lines 152-170: GET /metrics/
get_all_metrics ==
    /\ request.kind = "none"
    /\ phase = "serving"
    /\ request' = [NoRequest EXCEPT !.kind = "metrics", !.status = 200,
                                    !.body = aggregate(metrics)]
    /\ UNCHANGED orchestratorVars

\* lines 123-148: GET /functions/{func_id}/metrics
get_function_metrics ==
    /\ request.kind = "none"
    /\ phase = "serving"
    /\ \E func_id \in 1..(Len(functions) + 1) :
          IF NotFound(func_id)
          THEN request' = Rejected("function_metrics", func_id, 404)
          ELSE LET found == RowsOf(metrics, functions[func_id].name) IN
               IF found = <<>>
               THEN request' = Rejected("function_metrics", func_id, 404)
               ELSE request' = [Rejected("function_metrics", func_id, 200)
                                   EXCEPT !.body = {FunctionMetrics(NewestRow(found))}]
    /\ UNCHANGED orchestratorVars

\* what run_function measures and writes into a row
ResponseTimes == {1, 3}
Usages == {<<10, 5>>, <<20, 15>>}

\* lines 210-225 seen from the table: a run of f or g has ended and its row
\* is inserted; response_time is the wall-clock time of the run
InsertRow ==
    /\ request.kind = "none"
    /\ phase = "serving"
    /\ Len(metrics) < MaxRows
    /\ \E func_id \in 1..2, runtime \in Runtimes, response_time \in ResponseTimes,
          error_flag \in BOOLEAN, usage \in Usages :
          LET a == [NoArgs EXCEPT !.function_name = Functions[func_id].name,
                                  !.language = Functions[func_id].language,
                                  !.runtime = runtime]
              o == IF error_flag
                   THEN [Captured(InitOut, Completed(1, <<>>, <<"Traceback", "\n">>))
                            EXCEPT !.memory_usage = usage[1], !.cpu_usage = usage[2]]
                   ELSE [Captured(InitOut, Completed(0, <<"hi", "\n">>, <<>>))
                            EXCEPT !.memory_usage = usage[1], !.cpu_usage = usage[2]]
          IN metrics' = Append(metrics, MetricsRow(a, o) @@
                                        [response_time |-> response_time])
    /\ UNCHANGED <<functions, request, phase, dockerfile, imageExists, warm_containers, containers,
                   files, invocations, pc, args, container_id, result, out, exc, env,
                   effects>>

\* ------------------------------------------------------------- environment
\* the host's images are removed between two requests (docker image prune
\* -a); run_function reads the images on entry only
ImagesPruned ==
    /\ phase = "serving"
    /\ pc[EventLoop] = "idle"
    /\ \E l \in Supported : imageExists[l]
    /\ imageExists' = [l \in Supported |-> FALSE]
    /\ UNCHANGED <<functions, request, phase, dockerfile, warm_containers, containers, files, metrics,
                   invocations, pc, args, container_id, result, out, exc, env, effects>>

\* line 77: a prewarmed container runs `sleep 300`; when the sleep ends the
\* containers started at start-up exit (they were started without --rm, and
\* their ids stay in warm_containers).  They were started together, so they
\* end together; run_function looks at a container only when it uses it, so
\* the step is taken between two requests.
KeepAliveEnds ==
    /\ phase = "serving"
    /\ pc[EventLoop] = "idle"
    /\ \E i \in 1..Len(containers) :
          containers[i].kind = "warm" /\ containers[i].state = "running"
    /\ containers' = [i \in 1..Len(containers) |->
                        IF containers[i].kind = "warm"
                        THEN [containers[i] EXCEPT !.state = "exited"]
                        ELSE containers[i]]
    /\ UNCHANGED <<functions, request, phase, dockerfile, imageExists, warm_containers, files,
                   metrics, invocations, pc, args, container_id, result, out, exc, env,
                   effects>>

\* the number of containers prewarm_containers started for a key
Prewarmed(l, r) ==
    Cardinality({i \in 1..Len(containers) :
                    /\ containers[i].kind = "warm"
                    /\ containers[i].language = l
                    /\ containers[i].runtime = r})

\* ---------------------------------------------------------- specifications
\* Spec: the server as main.py runs it.  Its handlers are coroutines that
\* call run_function synchronously, so the event loop runs one call at a time.
\* the event loop takes the next request (at most MaxInvocations of them)
Serve == invocations < MaxInvocations /\ Call(EventLoop)

Next ==
    \/ Startup
    \/ Serve
    \/ CheckPool(EventLoop)
    \/ Pop(EventLoop)
    \/ Cp(EventLoop)
    \/ Exec(EventLoop)
    \/ Stats(EventLoop)
    \/ Cold(EventLoop)
    \/ Finish(EventLoop)
    \/ Reset(EventLoop)
    \/ ImagesPruned
    \/ KeepAliveEnds

Spec == Init /\ [][Next]_vars

\* SpecThreads: run_function called from NumWorkers threads, one call per
\* thread, every step of one thread interleaved with the steps of the others.
\* The calls are f (python) on runc, g (node) on runsc and h (ruby) on runc;
\* the images stay in place, start-up failed to start containers of the
\* (python, runc) set only, and the program under test prints "hi" and exits
\* 0 unless it runs into the deadline.
ThreadCalls == { [language |-> "python", runtime |-> "runc"],
                 [language |-> "node", runtime |-> "runsc"],
                 [language |-> "ruby", runtime |-> "runc"] }

StartFocus ==
    /\ \A l \in Supported : imageExists[l]
    /\ phase = "serving" =>
          \A l \in Supported, r \in Runtimes :
             <<l, r>> # <<"python", "runc">> => Prewarmed(l, r) = PrewarmCount

CallFocus(p) == [language |-> args[p].language, runtime |-> args[p].runtime] \in ThreadCalls

OutputFocus(p) ==
    /\ result[p] \in {NoResult, Completed(0, <<"hi", "\n">>, <<>>)}
    /\ out[p].memory_usage = 0

ThreadsNext ==
    \/ Startup /\ StartFocus'
    \/ \E p \in Workers : Call(p) /\ CallFocus(p)'
    \/ \E p \in Workers : CheckPool(p)
    \/ \E p \in Workers : Pop(p)
    \/ \E p \in Workers : Cp(p)
    \/ \E p \in Workers : Exec(p) /\ OutputFocus(p)'
    \/ \E p \in Workers : Stats(p) /\ OutputFocus(p)'
    \/ \E p \in Workers : Cold(p) /\ OutputFocus(p)'
    \/ \E p \in Workers : Finish(p)

SpecThreads == Init /\ [][ThreadsNext]_vars

\* SpecHandlers: the run and compare handlers of main.py on the event loop,
\* one request at a time; the host's images may be removed between two
\* requests.  The clients register f, g, h, e and b, in this order, and then
\* send their run and compare requests.  The program under test prints "hi" and exits 0 unless it runs
\* into the deadline; docker stats reports nothing.
HandlersRegistry ==
    /\ Len(functions) <= Len(Functions)
    /\ \A k \in 1..Len(functions) : functions[k] = Stored(Functions[k], k)

HandlersNext ==
    \/ Startup
    \/ create_function /\ HandlersRegistry'
    \/ run_function_endpoint /\ Len(functions) = Len(Functions)
    \/ compare_performance /\ Len(functions) = Len(Functions)
    \/ CompareSecondRun
    \/ CheckPool(EventLoop)
    \/ Pop(EventLoop)
    \/ Cp(EventLoop)
    \/ Exec(EventLoop) /\ OutputFocus(EventLoop)'
    \/ Stats(EventLoop) /\ OutputFocus(EventLoop)'
    \/ Cold(EventLoop) /\ OutputFocus(EventLoop)'
    \/ Finish(EventLoop)
    \/ Respond
    \/ ImagesPruned

SpecHandlers == Init /\ [][HandlersNext]_vars

\* SpecQueries: the metrics table as runs fill it (at most MaxRows rows) and
\* the two query handlers of main.py, after a start-up in which every image
\* was in place and every container started; the clients register f, g, h,
\* e and b, in this order.
QueriesFocus ==
    /\ StartFocus
    /\ phase = "serving" => Prewarmed("python", "runc") = PrewarmCount

QueriesNext ==
    \/ Startup /\ QueriesFocus'
    \/ create_function /\ HandlersRegistry'
    \/ InsertRow
    \/ get_all_metrics
    \/ get_function_metrics
    \/ Respond

SpecQueries == Init /\ [][QueriesNext]_vars

\* SpecRegistry: the registry handlers of main.py and the run handler, which
\* looks a function up in it, on the event loop, one request at a time.  The
\* clients post f and g, and the registry holds at most MaxFunctions
\* functions; start-up and the program under test are as in SpecThreads.
RegistryFocus == \A k \in 1..Len(functions) : functions[k].name \in {"f", "g"}

RegistryNext ==
    \/ Startup /\ StartFocus'
    \/ Len(functions) < MaxFunctions /\ create_function /\ RegistryFocus'
    \/ get_function
    \/ update_function /\ RegistryFocus'
    \/ delete_function
    \/ run_function_endpoint
    \/ CheckPool(EventLoop)
    \/ Pop(EventLoop)
    \/ Cp(EventLoop)
    \/ Exec(EventLoop) /\ OutputFocus(EventLoop)'
    \/ Stats(EventLoop) /\ OutputFocus(EventLoop)'
    \/ Cold(EventLoop) /\ OutputFocus(EventLoop)'
    \/ Finish(EventLoop)
    \/ Respond

SpecRegistry == Init /\ [][RegistryNext]_vars

\* ------------------------------------------------------------------ claims
OnPooledPath(p) == pc[p] \in {"cp", "exec", "stats"}

PoolIds == UNION {{warm_containers[l][r][i] : i \in 1..Len(warm_containers[l][r])} :
                     <<l, r>> \in Supported \X Runtimes}

\* C1: pool exclusivity under threads: no container id is held by two calls,
\* a held id is no longer in any pool list, and for every (language,
\* runtime) key at most as many calls are on the docker cp / docker exec
\* path as containers were prewarmed for that key.
C1_PoolExclusivity ==
    /\ \A p, q \in Workers :
          (p # q /\ container_id[p] # None) => container_id[p] # container_id[q]
    /\ \A p \in Workers : container_id[p] # None => container_id[p] \notin PoolIds
    /\ \A l \in Supported, r \in Runtimes :
          Cardinality({p \in Workers : /\ OnPooledPath(p)
                                       /\ args[p].language = l
                                       /\ args[p].runtime = r}) <= Prewarmed(l, r)

\* two calls for one key race for its single prewarmed container: one is in
\* docker exec with it, the other is past the truth test and about to pop
C1_Witness ==
    \E p, q \in Workers :
       /\ p # q
       /\ args[p].language = args[q].language /\ args[p].runtime = args[q].runtime
       /\ Prewarmed(args[p].language, args[p].runtime) < NumWorkers
       /\ Prewarmed(args[p].language, args[p].runtime) > 0
       /\ pc[p] = "exec"
       /\ pc[q] = "pop"

TimedOutCall(p) == out[p].output = TimeoutMessage(args[p].timeout)

MentionsTimedOut(text) == \E i \in 1..Len(text) : text[i] = TimedOutPrefix

CpFailed(p) == out[p].output # <<>> /\ out[p].output[1] = "Execution failed: "

\* docker cp failed, or docker exec / docker run returned non-zero
CommandFailed(p) == CpFailed(p) \/ (result[p].set /\ result[p].returncode # 0)

\* C2: when run_function has returned, the container it acquired or started
\* is back in a pool list or is no longer running.
C2_CleanupOnEveryExit ==
    \A p \in Workers :
       (pc[p] = "returned" /\ env[p] # None) =>
          (containers[env[p]].state = "exited" \/ env[p] \in PoolIds)

\* C3: after a call that used a pooled container and completed cleanly, that
\* container is the one the next pop for the same key returns.
C3_ReleasedReusable ==
    \A p \in Workers :
       (/\ pc[p] = "returned"
        /\ container_id[p] # None
        /\ result[p].set /\ result[p].returncode = 0
        /\ ~out[p].error_flag) =>
          (Pool(p) # <<>> /\ Pool(p)[Len(Pool(p))] = container_id[p])

\* C4: after a timed-out call has returned, the container that ran the code
\* is not running and is in no pool list (pooled and cold-started alike).
C4_TimeoutTerminates ==
    \A p \in Workers :
       (pc[p] = "returned" /\ TimedOutCall(p) /\ env[p] # None) =>
          (containers[env[p]].state # "running" /\ env[p] \notin PoolIds)

\* C5: for a supported language with the images present run_function does
\* not raise, and a call whose deadline expired or whose container command
\* failed returns error_flag = TRUE (output mentioning "timed out" after a
\* timeout) and has gone through the metrics INSERT, whose row (when the
\* store took it) is flagged as an error.
C5_FailuresAreResults ==
    \A p \in Workers :
       /\ (pc[p] = "raised" /\ args[p].language \in Supported) => "build" \in effects[p]
       /\ (pc[p] = "returned" /\ (TimedOutCall(p) \/ CommandFailed(p))) =>
             /\ out[p].error_flag
             /\ TimedOutCall(p) => MentionsTimedOut(out[p].output)
             /\ "insert" \in effects[p]
             /\ "metrics" \in effects[p] => metrics[Len(metrics)].error = 1

\* C6: a call with an unsupported language is rejected before any side
\* effect: no image inspect or build, no file, no container, no pool change,
\* no metrics row.
C6_UnsupportedRejectedFirst ==
    \A p \in Workers :
       (pc[p] = "raised" /\ args[p].language \notin Supported) => effects[p] = {}

\* C7: the temp file of a call exists from the write to the finally block
\* and is gone when run_function has returned, on every exit path.
C7_TempFileDeleted ==
    \A p \in Workers :
       /\ pc[p] \in {"try", "pop", "cp", "exec", "stats", "cold", "finally"} =>
             args[p].inv \in files
       /\ pc[p] = "returned" => args[p].inv \notin files

\* two calls have returned, one on the unexpected-error path (the lost race
\* for the last pooled container), and no temp file is left
C7_Witness ==
    \E p, q \in Workers :
       /\ p # q
       /\ pc[p] = "returned" /\ pc[q] = "returned"
       /\ out[p].output = UnexpectedErrorMessage(PopFromEmptyList)
       /\ files = {}

\* C8: for a run that completed with exit status 0: output is stdout if
\* stdout is non-empty, else stderr, and error_flag is TRUE exactly when
\* stderr is non-empty and stdout is empty.
C8_OutputSelection ==
    \A p \in Workers :
       (pc[p] \in {"finally", "returned"} /\ result[p].set /\ result[p].returncode = 0) =>
          /\ out[p].output = (IF out[p].stdout # <<>> THEN out[p].stdout ELSE out[p].stderr)
          /\ out[p].error_flag <=> (out[p].stderr # <<>> /\ out[p].stdout = <<>>)

\* a run wrote to both streams: output is its stdout and error_flag is FALSE
C8_Witness ==
    \E p \in Workers :
       /\ pc[p] = "returned"
       /\ result[p].set /\ result[p].returncode = 0
       /\ out[p].stdout # <<>> /\ out[p].stderr # <<>>
       /\ out[p].output = out[p].stdout
       /\ ~out[p].error_flag

\* C9: a call whose container command failed (other than by timeout) returns
\* error_flag = TRUE, and the row it appended has error = 1, whatever was
\* written to stdout.
C9_FailureSetsErrorFlag ==
    \A p \in Workers :
       (pc[p] = "returned" /\ ~TimedOutCall(p) /\ CommandFailed(p)) =>
          /\ out[p].error_flag
          /\ "metrics" \in effects[p] => metrics[Len(metrics)].error = 1

\* C10 as stated: once every call made has ended, the table holds one row
\* per call.
C10_OneRowPerCall ==
    (\A p \in Workers : pc[p] \in {"idle", "returned", "raised"}) =>
       Len(metrics) = invocations

Recorded == {p \in Workers : pc[p] = "returned" /\ "metrics" \in effects[p]}

RowOf(p, row) ==
    /\ row.function_name = args[p].function_name
    /\ row.runtime = args[p].runtime
    /\ row.error = (IF out[p].error_flag THEN 1 ELSE 0)

RowsMatchCalls ==
    /\ Len(metrics) <= invocations
    /\ \E f \in [1..Len(metrics) -> Workers] :
          /\ \A i, j \in 1..Len(metrics) : f[i] = f[j] => i = j
          /\ {f[i] : i \in 1..Len(metrics)} = Recorded
          /\ \A i \in 1..Len(metrics) : RowOf(f[i], metrics[i])

\* C10 amended: the rows are, one to one, the calls that returned a result
\* and whose INSERT succeeded, each row carrying its call's function name,
\* runtime and error flag (a call that raised, or whose INSERT failed, has
\* none); and every step leaves the existing rows in place.
C10_AtMostOneRowPerCall ==
    /\ []RowsMatchCalls
    /\ [][/\ Len(metrics') >= Len(metrics)
          /\ SubSeq(metrics', 1, Len(metrics)) = metrics]_vars

\* every call has ended: one returned and is recorded, another left no row
C10_Witness ==
    /\ \A p \in Workers : pc[p] \in {"returned", "raised"}
    /\ Len(metrics) >= 1
    /\ Len(metrics) < invocations

\* C11: the step that runs the metrics INSERT ends with run_function
\* returning, whether or not the INSERT failed: nothing is raised and the
\* output and the metrics values computed before the INSERT are the ones
\* returned.
C11_InsertFailureKeepsOutcome ==
    [][\A p \in Workers :
          (pc[p] = "finally" /\ pc'[p] # "finally") =>
             /\ pc'[p] = "returned"
             /\ exc'[p] = "none"
             /\ out'[p] = out[p]]_vars

\* a call returned its output although its INSERT failed
C11_Witness ==
    \E p \in Workers :
       /\ pc[p] = "returned"
       /\ "insert" \in effects[p] /\ "metrics" \notin effects[p]
       /\ out[p].output = <<"hi">>
       /\ ~out[p].error_flag

\* C12: a call that obtained no pooled container has cold-started one, under
\* every interleaving of the threads: no call ends with the error of a pop
\* from an empty pool list.
C12_ColdStartOnMiss ==
    \A p \in Workers :
       (pc[p] \in {"finally", "returned"} /\ container_id[p] = None) =>
          /\ "container" \in effects[p]
          /\ out[p].output # UnexpectedErrorMessage(PopFromEmptyList)

\* C13: every id in a pool list is a running container that no call holds,
\* and the container a call has popped is running when the call starts to
\* use it (also after the keep-alive sleep of the prewarmed containers ended).
C13_PoolHoldsIdle ==
    /\ \A id \in PoolIds :
          /\ containers[id].state = "running"
          /\ \A p \in Workers : container_id[p] # id
    /\ \A p \in Workers :
          pc[p] = "cp" => containers[container_id[p]].state = "running"

\* the rows appended since the handler in progress started
RequestRows == SubSeq(metrics, request.rows + 1, Len(metrics))

\* the handler in progress has made its last call and is about to be left
RequestEnds ==
    /\ request.status = 0
    /\ \/ pc[EventLoop] = "raised"
       \/ pc[EventLoop] = "returned" /\ request.kind = "run"
       \/ pc[EventLoop] = "returned" /\ request.stage = 2

\* C14 as stated: a compare call appends exactly two rows, the first of
\* runtime runc and the second of runtime runsc.
C14_CompareTwoRows ==
    (request.kind = "compare" /\ RequestEnds) =>
       /\ Len(RequestRows) = 2
       /\ RequestRows[1].runtime = "runc"
       /\ RequestRows[2].runtime = "runsc"

\* the call of compare_performance in progress is the stage-th of the
\* handler, made with the registered name, language and timeout and with
\* runtime runc (first) or runsc (second); the rows appended since the
\* handler started are at most one row of the first call followed by the
\* row of the call in progress once its INSERT succeeded
CompareInStep ==
    (request.kind = "compare" /\ request.stage > 0) =>
       LET function == functions[request.func_id]
           a == args[EventLoop]
           stored == pc[EventLoop] = "returned" /\ "metrics" \in effects[EventLoop]
           mine == IF stored THEN <<MetricsRow(a, out[EventLoop])>> ELSE <<>>
           before == Len(RequestRows) - Len(mine)
       IN /\ invocations = request.calls + request.stage
          /\ a.function_name = function.name
          /\ a.language = function.language
          /\ a.timeout = function.timeout
          /\ a.runtime = (IF request.stage = 1 THEN "runc" ELSE "runsc")
          /\ before \in (IF request.stage = 1 THEN {0} ELSE {0, 1})
          /\ SubSeq(RequestRows, before + 1, Len(RequestRows)) = mine
          /\ \A i \in 1..before :
                /\ RequestRows[i].runtime = "runc"
                /\ RequestRows[i].function_name = function.name

\* C14 amended: compare calls run_function with runc and, only after that
\* call has returned, with runsc, with the same name, language and timeout;
\* each call whose INSERT succeeds appends its one row (runc before runsc),
\* so two rows when both INSERTs succeed and none when the first call raises;
\* a call changes no pool list but that of (language, its runtime).
C14_CompareSequential ==
    /\ []CompareInStep
    /\ [][(request.kind = "compare" /\ request'.kind = "compare") =>
            /\ request'.stage # request.stage => pc[EventLoop] = "returned"
            /\ \A l \in Supported, r \in Runtimes :
                  warm_containers'[l][r] # warm_containers[l][r] =>
                     /\ l = functions[request.func_id].language
                     /\ r = (IF request.stage = 1 THEN "runc" ELSE "runsc")]_vars

\* a compare of f ended with both calls on pooled containers and two rows
C14_Witness ==
    /\ request.kind = "compare"
    /\ request.stage = 2
    /\ pc[EventLoop] = "returned"
    /\ container_id[EventLoop] # None
    /\ Len(RequestRows) = 2
    /\ RequestRows[1].runtime = "runc" /\ RequestRows[2].runtime = "runsc"
    /\ Len(warm_containers[args[EventLoop].language]["runc"]) < Prewarmed(args[EventLoop].language, "runc")
    /\ Len(warm_containers[args[EventLoop].language]["runsc"]) < Prewarmed(args[EventLoop].language, "runsc")

\* the request in progress is for a registered function whose code is
\* missing or empty
CodelessRequest(req) ==
    /\ req.kind \in {"run", "compare"}
    /\ req.func_id \in 1..Len(functions)
    /\ LET settings == functions[req.func_id].settings
       IN "code" \notin DOMAIN settings \/ settings["code"] = ""

\* C19: a run or compare request for a registered function without code is
\* answered with status 400 before run_function is called: the step that
\* takes the request leaves the pool, the containers, the files, the images
\* and the metrics table as they were and makes no call.
C19_NoCodeRejectedFirst ==
    /\ [](CodelessRequest(request) =>
            /\ request.status = 400
            /\ pc[EventLoop] = "idle"
            /\ invocations = request.calls
            /\ Len(metrics) = request.rows)
    /\ [][(request.kind = "none" /\ CodelessRequest(request')) =>
            UNCHANGED <<warm_containers, containers, files, imageExists, metrics,
                        invocations, pc>>]_vars

\* a compare request for b, registered with empty code, was rejected
C19_Witness ==
    /\ request.kind = "compare"
    /\ request.status = 400
    /\ request.func_id \in 1..Len(functions)
    /\ functions[request.func_id].settings = [code |-> ""]

\* C15: of two consecutive calls of ensure_docker_images that both succeed,
\* the second builds nothing, and no language is built by both (the first
\* builds absent images only).
C15_ProvisioningIdempotent ==
    \A b1, b2 \in [Supported -> BOOLEAN] :
       LET first == ensure_docker_images(dockerfile, imageExists, b1)
           second == ensure_docker_images(dockerfile, first.images, b2)
       IN (first.raised = "none" /\ second.raised = "none") =>
             /\ second.built = {}
             /\ first.built \cap second.built = {}
             /\ first.built = {l \in Supported : ~imageExists[l]}
             /\ \A l \in Supported : first.images[l] /\ second.images[l]

\* a run_function call has provisioned the images by building them: the
\* images are in place for the next call
C15_Witness ==
    \E p \in Workers :
       /\ pc[p] \in {"try", "pop", "cold", "cp", "exec", "stats", "finally", "returned"}
       /\ "build" \in effects[p]
       /\ \A l \in Supported : imageExists[l]

\* C16: prewarm_containers(language, runtime) returns for every outcome of
\* its start attempts; the containers that started, and only they, are
\* appended to the pool list of (language, runtime) in the order of the
\* attempts, the other pool lists and the existing containers are as before.
C16_PartialPrewarm ==
    \A l \in Supported, r \in Runtimes, ok \in StartOutcomes :
       LET before == [wc |-> warm_containers, cs |-> containers]
           after == prewarm_containers(before, dockerfile, imageExists, l, r, ok)
           n == Cardinality({i \in 1..Len(ok) : ok[i]})
           attempted == \A k \in Supported : dockerfile[k]
       IN /\ \A l2 \in Supported, r2 \in Runtimes :
                <<l2, r2>> # <<l, r>> => after.wc[l2][r2] = before.wc[l2][r2]
          /\ SubSeq(after.cs, 1, Len(before.cs)) = before.cs
          /\ ~attempted => after = before
          /\ attempted =>
                /\ Len(after.cs) = Len(before.cs) + n
                /\ after.wc[l][r] =
                      before.wc[l][r] \o [i \in 1..n |-> Len(before.cs) + i]
                /\ \A id \in (Len(before.cs) + 1)..Len(after.cs) :
                      after.cs[id] = Container("warm", l, r)

\* start-up has prewarmed with one of the two starts of a key failing: that
\* key's pool list holds the one container that started
C16_Witness ==
    /\ phase = "serving"
    /\ invocations = 0
    /\ \E l \in Supported, r \in Runtimes :
          /\ Prewarmed(l, r) = 1
          /\ Len(warm_containers[l][r]) = 1
          /\ containers[warm_containers[l][r][1]] = Container("warm", l, r)

\* C20: ensure_docker_images builds absent images only, raises only when an
\* absent image cannot be built (its Dockerfile is missing or its build
\* fails), and succeeds without building when every image exists.
C20_BuildOnlyWhenAbsent ==
    \A buildOk \in [Supported -> BOOLEAN] :
       LET e == ensure_docker_images(dockerfile, imageExists, buildOk)
           absent == {l \in Supported : ~imageExists[l]}
       IN /\ e.built \subseteq absent
          /\ e.raised # "none" => \E l \in absent : ~dockerfile[l] \/ ~buildOk[l]
          /\ absent = {} => (e.raised = "none" /\ e.built = {})

\* the sum of column c over the rows with the positions in idx
RECURSIVE SumOver(_, _)
SumOver(idx, c) ==
    IF idx = {} THEN 0
    ELSE LET i == CHOOSE j \in idx : TRUE IN metrics[i][c] + SumOver(idx \ {i}, c)

\* fraction q is the mean of column c over the rows with the positions in idx
IsMeanOf(q, idx, c) == q.den > 0 /\ q.num * Cardinality(idx) = SumOver(idx, c) * q.den

\* C17: the reply of GET /metrics/ has one entry per (function_name,
\* runtime) present in the table, whose averages are the means of
\* response_time, memory_usage and cpu_usage over exactly the rows of that
\* pair and whose error_count is the number of those rows with error = 1.
C17_Aggregate ==
    request.kind = "metrics" =>
       LET keys == {<<metrics[i].function_name, metrics[i].runtime>> : i \in 1..Len(metrics)}
       IN /\ {<<g.function_name, g.runtime>> : g \in request.body} = keys
          /\ Cardinality(request.body) = Cardinality(keys)
          /\ \A g \in request.body :
                LET idx == {i \in 1..Len(metrics) :
                              /\ metrics[i].function_name = g.function_name
                              /\ metrics[i].runtime = g.runtime}
                IN /\ IsMeanOf(g.avg_response_time, idx, "response_time")
                   /\ IsMeanOf(g.avg_memory_usage_mb, idx, "memory_usage")
                   /\ IsMeanOf(g.avg_cpu_usage_percent, idx, "cpu_usage")
                   /\ g.error_count = Cardinality({i \in idx : metrics[i].error = 1})

\* the table holds the rows (f, runc, 1, 0, 10, 5) and (f, runc, 3, 1, 20, 15)
\* and the reply is 2, 1, 15, 10 for (f, runc)
C17_Witness ==
    /\ request.kind = "metrics"
    /\ Len(metrics) = 2
    /\ \A i \in 1..2 : metrics[i].function_name = "f" /\ metrics[i].runtime = "runc"
    /\ Column(metrics, "response_time") = <<1, 3>>
    /\ Column(metrics, "error") = <<0, 1>>
    /\ Column(metrics, "memory_usage") = <<10, 20>>
    /\ Column(metrics, "cpu_usage") = <<5, 15>>
    /\ request.body = {[function_name |-> "f", runtime |-> "runc",
                        avg_response_time |-> [num |-> 2, den |-> 1],
                        error_count |-> 1,
                        avg_memory_usage_mb |-> [num |-> 15, den |-> 1],
                        avg_cpu_usage_percent |-> [num |-> 10, den |-> 1]]}

\* C18: the reply of GET /functions/{func_id}/metrics for a registered
\* function carries the columns of the row inserted last among the rows
\* with the function's name, whatever their runtime, and is 404 when the
\* table holds no row with that name.
C18_MostRecent ==
    (request.kind = "function_metrics" /\ request.func_id \in 1..Len(functions)) =>
       LET name == functions[request.func_id].name
           idx == {i \in 1..Len(metrics) : metrics[i].function_name = name}
       IN IF idx = {}
          THEN request.status = 404 /\ request.body = {}
          ELSE LET last == CHOOSE i \in idx : \A j \in idx : j <= i
                   row == metrics[last]
               IN /\ request.status = 200
                  /\ request.body =
                        {[response_time |-> row.response_time, error |-> row.error,
                          stdout |-> row.stdout, stderr |-> row.stderr,
                          memory_usage |-> row.memory_usage,
                          cpu_usage |-> row.cpu_usage]}

\* f has a failed row of runtime runc and a later clean row of runtime runsc:
\* the reply is the later one
C18_Witness ==
    /\ request.kind = "function_metrics"
    /\ request.status = 200
    /\ request.func_id = 1
    /\ Len(metrics) = 2
    /\ metrics[1].function_name = "f" /\ metrics[1].runtime = "runc"
    /\ metrics[2].function_name = "f" /\ metrics[2].runtime = "runsc"
    /\ metrics[1].error = 1 /\ metrics[2].error = 0
    /\ \E reply \in request.body : reply.error = 0 /\ reply.stdout = <<"hi">>

\* C21: after any sequence of create_function and delete_function calls the
\* registered function ids are unique, every stored function is found under
\* its own id (the function at position func_id, which the get, run and
\* metrics handlers read, has id func_id), and the id a create returned is
\* held by the created function only.
C21_RegistryIds ==
    /\ \A i, j \in 1..Len(functions) : i # j => functions[i].id # functions[j].id
    /\ \A i \in 1..Len(functions) : functions[i].id = i
    /\ request.kind = "create" =>
          Cardinality({i \in 1..Len(functions) : functions[i].id = request.func_id}) = 1

\* the calls that took a container from the list of (l, r)
PooledCalls(l, r) ==
    Cardinality({p \in Workers : /\ "pool" \in effects[p]
                                 /\ args[p].language = l
                                 /\ args[p].runtime = r})

IsPrefix(s, t) == Len(s) <= Len(t) /\ SubSeq(t, 1, Len(s)) = s

\* C22: the warm pool only shrinks after start-up.  While the server is
\* serving: every pool list holds the containers prewarmed for its key less
\* one per call that took one; no prewarmed container is the environment of
\* two calls; no step adds to a pool list (each list stays a prefix of what
\* it was); and a call that tests the list of its key after as many calls
\* took a container of that key as were prewarmed for it goes to the cold
\* start, starts its own container and leaves the pool lists alone.
C22_PoolOnlyShrinks ==
    /\ [](phase = "serving" =>
            /\ \A l \in Supported, r \in Runtimes :
                  Len(warm_containers[l][r]) + PooledCalls(l, r) = Prewarmed(l, r)
            /\ \A p, q \in Workers :
                  (p # q /\ env[p] # None /\ containers[env[p]].kind = "warm")
                     => env[p] # env[q])
    /\ [][phase = "serving" =>
            /\ \A l \in Supported, r \in Runtimes :
                  IsPrefix(warm_containers'[l][r], warm_containers[l][r])
            /\ \A p \in Workers :
                  (/\ pc[p] = "try"
                   /\ pc'[p] # "try"
                   /\ PooledCalls(args[p].language, args[p].runtime)
                         = Prewarmed(args[p].language, args[p].runtime))
                     => pc'[p] = "cold"
            /\ \A p \in Workers :
                  (pc[p] = "cold" /\ pc'[p] # "cold")
                     => /\ "container" \in effects'[p]
                        /\ "pool" \notin effects'[p]
                        /\ container_id'[p] = None
                        /\ warm_containers' = warm_containers]_vars

\* the only container prewarmed for a key went to one call, and a second
\* call for the key, which tested the list afterwards, has cold-started
C22_Witness ==
    \E p, q \in Workers :
       /\ p # q
       /\ args[p].language = args[q].language /\ args[p].runtime = args[q].runtime
       /\ "pool" \in effects[p]
       /\ Prewarmed(args[p].language, args[p].runtime)
             = PooledCalls(args[p].language, args[p].runtime)
       /\ "container" \in effects[q]
       /\ "pool" \notin effects[q]
       /\ pc[q] = "returned"
====
